---- MODULE Spec2Model ----
(***************************************************************************)
(* measureme file header (src/measureme/src/file_header.rs): a 4 byte file  *)
(* magic followed by a 4 byte little-endian version number.                 *)
(*                                                                          *)
(* Bytes are naturals in 0..255, byte slices are sequences (Rust index i is *)
(* TLA+ index i+1).  A u32 is kept as its two 16 bit halves [lo, hi], value *)
(* lo + 65536 * hi, because the model checker's integers are 32 bit signed  *)
(* and cannot hold 0xFFFF_FFFF.                                             *)
(***************************************************************************)
EXTENDS Integers, Sequences, FiniteSets, TLC

VARIABLES
    pc,             \* position of the single-threaded caller: start, written, bytes, read
    sink,           \* bytes committed to the SerializationSink so far
    writes,         \* the write_atomic calls committed to the sink, in order
    file_magic,     \* the magic handed to write_file_header (NoMagic before the call)
    data,           \* the byte buffer handed to read_file_header / strip_file_header
    expected_magic, \* the expected magic of the last read_file_header call
    result,         \* what the last read_file_header call returned
    stripped,       \* what the last strip_file_header call returned
    pending,        \* per writer thread: write_atomic requests issued and not yet committed
    calls           \* per writer thread: the write_file_header call it made, if any

vars == <<pc, sink, writes, file_magic, data, expected_magic, result, stripped, pending, calls>>

----------------------------------------------------------------------------
(* Bounds of the model *)

\* payload bytes written after the header by the single-threaded caller
MaxPayload == 1
\* write_atomic commits on the shared sink of the concurrent specification
MaxWrites == 3

----------------------------------------------------------------------------
(* Constants of file_header.rs *)

CURRENT_FILE_FORMAT_VERSION == 0
FILE_MAGIC_EVENT_STREAM == <<77, 77, 69, 83>>
FILE_MAGIC_STRINGTABLE_DATA == <<77, 77, 83, 68>>
FILE_MAGIC_STRINGTABLE_INDEX == <<77, 77, 83, 73>>
FILE_HEADER_SIZE == 8

\* a magic that is none of the three constants: the codec accepts any [u8; 4]
OtherMagic == <<0, 255, 0, 255>>

Magics == {FILE_MAGIC_EVENT_STREAM, FILE_MAGIC_STRINGTABLE_DATA,
           FILE_MAGIC_STRINGTABLE_INDEX, OtherMagic}

\* values a test overwrites a byte with (data[2] = 0, data[4] = 0xFF)
CorruptBytes == {0, 255}
\* values of payload bytes
PayloadBytes == {1}

NoMagic == <<>>
None == [tag |-> "None"]
Panic == [tag |-> "Panic"]
Ok(v) == [tag |-> "Ok", value |-> v]
Err(m) == [tag |-> "Err", msg |-> m]

----------------------------------------------------------------------------
(* u32 and byteorder::LittleEndian *)

U32(n) == [lo |-> n % 65536, hi |-> (n \div 65536) % 65536]

\* LittleEndian::write_u32: least significant byte first
LittleEndian_write_u32(v) ==
    <<v.lo % 256, v.lo \div 256, v.hi % 256, v.hi \div 256>>

\* a decode with the most significant byte first
BigEndian_read_u32(b) ==
    [lo |-> b[4] + 256 * b[3], hi |-> b[2] + 256 * b[1]]

\* LittleEndian::read_u32 of a 4 byte slice
LittleEndian_read_u32(b) ==
    [lo |-> b[1] + 256 * b[2], hi |-> b[3] + 256 * b[4]]

----------------------------------------------------------------------------
(* Rust slices: bytes[a..b] panics unless a <= b <= len *)

InBounds(bytes, a, b) == a <= b /\ b <= Len(bytes)

Slice(bytes, a, b) == SubSeq(bytes, a + 1, b)

\* a comparison that stops one element short
SliceEq_short(a, b) ==
    /\ Len(a) = Len(b)
    /\ \A i \in 1..(Len(a) - 1) : a[i] = b[i]

\* PartialEq between a slice and an array: equal lengths and equal elements
SliceEq(a, b) ==
    /\ Len(a) = Len(b)
    /\ \A i \in 1..Len(a) : a[i] = b[i]

----------------------------------------------------------------------------
(* format!("Unexpected file magic `{:?}`. Expected `{:?}`", actual, expected) *)
(* A message is a sequence of tokens: the literal pieces and single chars.   *)

\* the backtick character, which a TLA+ string cannot hold
Backtick == "BACKTICK"

DigitChars == <<"0", "1", "2", "3", "4", "5", "6", "7", "8", "9">>

Digit(d) == DigitChars[d + 1]

\* Debug of a u8: decimal, no leading zeros
FmtU8(n) ==
    IF n < 10 THEN <<Digit(n)>>
    ELSE IF n < 100 THEN <<Digit(n \div 10), Digit(n % 10)>>
    ELSE <<Digit(n \div 100), Digit((n \div 10) % 10), Digit(n % 10)>>

RECURSIVE FmtItems(_)
FmtItems(s) ==
    IF s = <<>> THEN <<>>
    ELSE IF Len(s) = 1 THEN FmtU8(s[1])
    ELSE FmtU8(s[1]) \o <<",", " ">> \o FmtItems(Tail(s))

\* Debug of a byte slice or array: [77, 77, 69, 83]
FmtDebug(s) == <<"[">> \o FmtItems(s) \o <<"]">>

\* a message with its two arguments in the wrong order
MagicMsg_swapped(actual_magic, expected) ==
    <<"Unexpected file magic ", Backtick>> \o FmtDebug(expected)
        \o <<Backtick, ". Expected ", Backtick>> \o FmtDebug(actual_magic)
        \o <<Backtick>>

MagicMsg(actual_magic, expected) ==
    <<"Unexpected file magic ", Backtick>> \o FmtDebug(actual_magic)
        \o <<Backtick, ". Expected ", Backtick>> \o FmtDebug(expected)
        \o <<Backtick>>

----------------------------------------------------------------------------
(* file_header.rs *)

\* a fill that puts the version first and the magic after it
HeaderFill_version_first(bytes, magic) ==
    [i \in 1..Len(bytes) |->
        IF i <= 4
        THEN LittleEndian_write_u32(U32(CURRENT_FILE_FORMAT_VERSION))[i]
        ELSE IF i <= 8 THEN magic[i - 4]
        ELSE bytes[i]]

\* a fill that copies the magic back to front
HeaderFill_reversed(bytes, magic) ==
    [i \in 1..Len(bytes) |->
        IF i <= 4 THEN magic[5 - i]
        ELSE IF i <= 8
             THEN LittleEndian_write_u32(U32(CURRENT_FILE_FORMAT_VERSION))[i - 4]
        ELSE bytes[i]]

\* the closure handed to write_atomic, applied to the buffer the sink provides
HeaderFill(bytes, magic) ==
    [i \in 1..Len(bytes) |->
        IF i <= 4 THEN magic[i]
        ELSE IF i <= 8
             THEN LittleEndian_write_u32(U32(CURRENT_FILE_FORMAT_VERSION))[i - 4]
        ELSE bytes[i]]

Zeroed(n) == [i \in 1..n |-> 0]

\* a header written as two write_atomic calls, the magic and then the version
write_file_header_two_writes(magic) ==
    << [num_bytes |-> 4, bytes |-> magic],
       [num_bytes |-> 4,
        bytes |-> LittleEndian_write_u32(U32(CURRENT_FILE_FORMAT_VERSION))] >>

\* write_file_header: the write_atomic requests it issues on the sink, in order
write_file_header(magic) ==
    << [num_bytes |-> FILE_HEADER_SIZE,
        bytes |-> HeaderFill(Zeroed(FILE_HEADER_SIZE), magic)] >>

\* a read that slices the whole header before it looks at the magic
read_file_header_slice_first(bytes, expected) ==
    IF ~InBounds(bytes, 0, FILE_HEADER_SIZE) THEN Panic
    ELSE LET actual_magic == Slice(bytes, 0, 4) IN
         IF ~SliceEq(actual_magic, expected)
         THEN Err(MagicMsg(actual_magic, expected))
         ELSE Ok(LittleEndian_read_u32(Slice(bytes, 4, 8)))

\* a read whose message prints the whole buffer instead of the magic
read_file_header_whole_msg(bytes, expected) ==
    IF ~InBounds(bytes, 0, 4) THEN Panic
    ELSE LET actual_magic == Slice(bytes, 0, 4) IN
         IF ~SliceEq(actual_magic, expected)
         THEN Err(MagicMsg(bytes, expected))
         ELSE IF ~InBounds(bytes, 4, 8) THEN Panic
         ELSE Ok(LittleEndian_read_u32(Slice(bytes, 4, 8)))

read_file_header(bytes, expected) ==
    IF ~InBounds(bytes, 0, 4) THEN Panic
    ELSE LET actual_magic == Slice(bytes, 0, 4) IN
         IF ~SliceEq(actual_magic, expected)
         THEN Err(MagicMsg(actual_magic, expected))
         ELSE IF ~InBounds(bytes, 4, 8) THEN Panic
         ELSE Ok(LittleEndian_read_u32(Slice(bytes, 4, 8)))

\* a strip that skips the magic only
strip_file_header_magic_only(bytes) ==
    IF ~InBounds(bytes, 4, Len(bytes)) THEN Panic
    ELSE Ok(Slice(bytes, 4, Len(bytes)))

strip_file_header(bytes) ==
    IF ~InBounds(bytes, FILE_HEADER_SIZE, Len(bytes)) THEN Panic
    ELSE Ok(Slice(bytes, FILE_HEADER_SIZE, Len(bytes)))

----------------------------------------------------------------------------
(* The sink: SerializationSink::write_atomic and TestSink::into_bytes *)

\* write_atomic commits the filled buffer of one request as a unit at the end
write_atomic(s, req) == s \o req.bytes

\* the log entry of a committed write_atomic call: who made it, on behalf of what
Logged(by, call, reqs) ==
    [i \in 1..Len(reqs) |->
        [by |-> by, call |-> call,
         num_bytes |-> reqs[i].num_bytes, bytes |-> reqs[i].bytes]]

RECURSIVE write_all(_, _)
write_all(s, reqs) ==
    IF reqs = <<>> THEN s
    ELSE write_all(write_atomic(s, Head(reqs)), Tail(reqs))

----------------------------------------------------------------------------
(* Single-threaded use, as in the tests: write, into_bytes, overwrite, read *)

Init ==
    /\ pc = "start"
    /\ sink = <<>>
    /\ writes = <<>>
    /\ file_magic = NoMagic
    /\ data = <<>>
    /\ expected_magic = NoMagic
    /\ result = None
    /\ stripped = None
    /\ pending = <<>>
    /\ calls = <<>>

WriteFileHeader(m) ==
    /\ pc = "start"
    /\ sink' = write_all(sink, write_file_header(m))
    /\ writes' = writes \o Logged("main", "write_file_header", write_file_header(m))
    /\ file_magic' = m
    /\ pc' = "written"
    /\ UNCHANGED <<data, expected_magic, result, stripped, pending, calls>>

WritePayload(b) ==
    /\ pc = "written"
    /\ Len(sink) < FILE_HEADER_SIZE + MaxPayload
    /\ sink' = write_atomic(sink, [num_bytes |-> 1, bytes |-> <<b>>])
    /\ writes' = writes \o Logged("main", "other", <<[num_bytes |-> 1, bytes |-> <<b>>]>>)
    /\ UNCHANGED <<pc, file_magic, data, expected_magic, result, stripped, pending, calls>>

IntoBytes ==
    /\ pc = "written"
    /\ data' = sink
    /\ pc' = "bytes"
    /\ UNCHANGED <<sink, writes, file_magic, expected_magic, result, stripped, pending, calls>>

\* data[i] = v on the header bytes (Rust index i, 0-based)
Overwrite(i, v) ==
    /\ pc = "bytes"
    /\ stripped = None
    /\ i < Len(data)
    /\ data' = [data EXCEPT ![i + 1] = v]
    /\ UNCHANGED <<pc, sink, writes, file_magic, expected_magic, result, stripped, pending, calls>>

\* the caller hands over only the first n bytes
Truncate(n) ==
    /\ pc = "bytes"
    /\ stripped = None
    /\ n < Len(data)
    /\ data' = SubSeq(data, 1, n)
    /\ UNCHANGED <<pc, sink, writes, file_magic, expected_magic, result, stripped, pending, calls>>

ReadFileHeader(e) ==
    /\ pc = "bytes"
    /\ expected_magic' = e
    /\ result' = read_file_header(data, e)
    /\ pc' = "read"
    /\ UNCHANGED <<sink, writes, file_magic, data, stripped, pending, calls>>

StripFileHeader ==
    /\ pc \in {"bytes", "read"}
    /\ stripped = None
    /\ stripped' = strip_file_header(data)
    /\ UNCHANGED <<pc, sink, writes, file_magic, data, expected_magic, result, pending, calls>>

Next ==
    \/ \E m \in Magics : WriteFileHeader(m)
    \/ \E b \in PayloadBytes : WritePayload(b)
    \/ IntoBytes
    \/ \E i \in 0..(FILE_HEADER_SIZE - 1), v \in CorruptBytes : Overwrite(i, v)
    \/ \E n \in 0..(FILE_HEADER_SIZE + MaxPayload) : Truncate(n)
    \/ \E e \in Magics : ReadFileHeader(e)
    \/ StripFileHeader

Spec == Init /\ [][Next]_vars

----------------------------------------------------------------------------
(* Writer threads sharing one sink, and a reader of the sink's bytes.  A     *)
(* thread that has entered write_file_header holds the write_atomic requests *)
(* it has still to make; each write_atomic call commits as one step.         *)

Writers == {"w1", "w2"}

NoCall == [magic |-> NoMagic, start |-> -1]

\* values of the bytes another write puts on the sink
OtherBytes == {1, 77}

SinkInit ==
    /\ pc = "shared"
    /\ sink = <<>>
    /\ writes = <<>>
    /\ file_magic = NoMagic
    /\ data = <<>>
    /\ expected_magic = NoMagic
    /\ result = None
    /\ stripped = None
    /\ pending = [w \in Writers |-> <<>>]
    /\ calls = [w \in Writers |-> NoCall]

\* writer w enters write_file_header(sink, m)
CallWriteFileHeader(w, m) ==
    /\ calls[w] = NoCall
    /\ pending' = [pending EXCEPT ![w] = write_file_header(m)]
    /\ calls' = [calls EXCEPT ![w] = [magic |-> m, start |-> -1]]
    /\ UNCHANGED <<pc, sink, writes, file_magic, data, expected_magic, result, stripped>>

\* the next write_atomic call of writer w's write_file_header commits
CommitWriteAtomic(w) ==
    /\ pending[w] # <<>>
    /\ Len(writes) < MaxWrites
    /\ sink' = write_atomic(sink, Head(pending[w]))
    /\ writes' = writes \o Logged(w, "write_file_header", <<Head(pending[w])>>)
    /\ pending' = [pending EXCEPT ![w] = Tail(pending[w])]
    /\ calls' = [calls EXCEPT ![w].start =
                    IF calls[w].start < 0 THEN Len(sink) ELSE calls[w].start]
    /\ UNCHANGED <<pc, file_magic, data, expected_magic, result, stripped>>

\* writer w makes another write on the sink, one byte of payload
WriteOther(w, b) ==
    /\ pending[w] = <<>>
    /\ Len(writes) < MaxWrites
    /\ sink' = write_atomic(sink, [num_bytes |-> 1, bytes |-> <<b>>])
    /\ writes' = writes \o Logged(w, "other", <<[num_bytes |-> 1, bytes |-> <<b>>]>>)
    /\ UNCHANGED <<pc, file_magic, data, expected_magic, result, stripped, pending, calls>>

\* a reader takes the bytes the sink holds at this moment
Snapshot ==
    /\ data' = sink
    /\ UNCHANGED <<pc, sink, writes, file_magic, expected_magic, result, stripped, pending, calls>>

SinkNext ==
    \/ \E w \in Writers, m \in Magics : CallWriteFileHeader(w, m)
    \/ \E w \in Writers : CommitWriteAtomic(w)
    \/ \E w \in Writers, b \in OtherBytes : WriteOther(w, b)
    \/ Snapshot

SinkSpec == SinkInit /\ [][SinkNext]_vars

----------------------------------------------------------------------------
(* Reading a message back: the two bracketed lists of decimal numbers *)

DigitValue(c) == CHOOSE d \in 0..9 : DigitChars[d + 1] = c

IsDigit(c) == \E d \in 0..9 : DigitChars[d + 1] = c

\* toks: what is left to read; cur: the number being read, -1 if none; acc: the numbers read
RECURSIVE ParseItems(_, _, _)
ParseItems(toks, cur, acc) ==
    IF toks = <<>> THEN (IF cur >= 0 THEN Append(acc, cur) ELSE acc)
    ELSE IF IsDigit(Head(toks))
         THEN ParseItems(Tail(toks), (IF cur >= 0 THEN 10 * cur ELSE 0) + DigitValue(Head(toks)), acc)
    ELSE IF Head(toks) = ","
         THEN ParseItems(Tail(toks), -1, IF cur >= 0 THEN Append(acc, cur) ELSE acc)
    ELSE ParseItems(Tail(toks), cur, acc)

Positions(msg, tok) == {i \in 1..Len(msg) : msg[i] = tok}

Min(S) == CHOOSE x \in S : \A y \in S : x <= y
Max(S) == CHOOSE x \in S : \A y \in S : x >= y

\* a message of the form  Unexpected file magic `[..]`. Expected `[..]`
WellFormedMsg(msg) ==
    /\ Len(msg) >= 2
    /\ msg[1] = "Unexpected file magic "
    /\ msg[2] = Backtick
    /\ Cardinality(Positions(msg, "[")) = 2
    /\ Cardinality(Positions(msg, "]")) = 2
    /\ Cardinality(Positions(msg, ". Expected ")) = 1
    /\ Min(Positions(msg, "]")) < Min(Positions(msg, ". Expected "))
    /\ Min(Positions(msg, ". Expected ")) < Max(Positions(msg, "["))

\* the list printed before ". Expected"
MsgActual(msg) ==
    ParseItems(SubSeq(msg, Min(Positions(msg, "[")) + 1, Min(Positions(msg, "]")) - 1), -1, <<>>)

\* the list printed after ". Expected"
MsgExpected(msg) ==
    ParseItems(SubSeq(msg, Max(Positions(msg, "[")) + 1, Max(Positions(msg, "]")) - 1), -1, <<>>)

----------------------------------------------------------------------------
(* Claims about the codec, checked under Spec *)

CurrentVersion == U32(CURRENT_FILE_FORMAT_VERSION)

\* the buffer read is exactly what the sink holds: nothing overwritten or cut off
Untouched == data = sink

\* C1: round trip. Reading the bytes write_file_header(m) produced on a fresh
\* sink with expected magic m returns Ok(CURRENT_FILE_FORMAT_VERSION).
C1_RoundTrip ==
    (pc = "read" /\ Untouched /\ expected_magic = file_magic)
        => result = Ok(CurrentVersion)

C1_Witness ==
    /\ pc = "read"
    /\ Untouched
    /\ Len(data) = FILE_HEADER_SIZE
    /\ expected_magic = file_magic
    /\ file_magic = FILE_MAGIC_EVENT_STREAM
    /\ result.tag = "Ok"

\* C2: magic rejection. Reading the bytes written with magic m1 with expected
\* magic m2 # m1 fails, the error carries m1 as the actual and m2 as the
\* expected magic, and no version value is produced.
C2_MagicRejection ==
    (pc = "read" /\ Untouched /\ expected_magic # file_magic)
        => /\ result.tag = "Err"
           /\ DOMAIN result = {"tag", "msg"}
           /\ WellFormedMsg(result.msg)
           /\ MsgActual(result.msg) = file_magic
           /\ MsgExpected(result.msg) = expected_magic

C2_Witness ==
    /\ pc = "read"
    /\ Untouched
    /\ file_magic = FILE_MAGIC_EVENT_STREAM
    /\ expected_magic = FILE_MAGIC_STRINGTABLE_DATA
    /\ result.tag = "Err"
    /\ MsgActual(result.msg) = <<77, 77, 69, 83>>
    /\ MsgExpected(result.msg) = <<77, 77, 83, 68>>

\* C3: version pass-through. For a buffer of at least 8 bytes whose bytes 0..3
\* equal the expected magic, the read returns Ok(v) with v the little-endian
\* decode of bytes 4..7 (lo = b4 + 256*b5, hi = b6 + 256*b7, v = lo + 65536*hi),
\* whatever those bytes are: FF FF FF FF gives 0xFFFF_FFFF.
C3_VersionPassThrough ==
    (pc = "read" /\ Len(data) >= FILE_HEADER_SIZE /\ SubSeq(data, 1, 4) = expected_magic)
        => /\ result.tag = "Ok"
           /\ result.value.lo = data[5] + 256 * data[6]
           /\ result.value.hi = data[7] + 256 * data[8]
           /\ (SubSeq(data, 5, 8) = <<255, 255, 255, 255>>
                => result.value = [lo |-> 65535, hi |-> 65535])

C3_Witness ==
    /\ pc = "read"
    /\ file_magic = FILE_MAGIC_STRINGTABLE_INDEX
    /\ expected_magic = FILE_MAGIC_STRINGTABLE_INDEX
    /\ Len(data) >= FILE_HEADER_SIZE
    /\ SubSeq(data, 1, 8) = <<77, 77, 83, 73, 255, 255, 255, 255>>
    /\ result = Ok([lo |-> 65535, hi |-> 65535])

\* a buffer with a matching magic and a version whose bytes are not symmetric
C3_WitnessAsymmetric ==
    /\ pc = "read"
    /\ Len(data) >= FILE_HEADER_SIZE
    /\ SubSeq(data, 5, 8) = <<255, 0, 0, 0>>
    /\ result = Ok([lo |-> 255, hi |-> 0])

\* C4: layout. write_file_header(sink, m) makes exactly one write_atomic call,
\* of exactly 8 bytes: bytes 0..3 are m, bytes 4..7 are version 0 little-endian;
\* for MMES the bytes are 4D 4D 45 53 00 00 00 00.
C4_Layout ==
    [][(pc = "start" /\ pc' = "written")
        => /\ Len(writes') = Len(writes) + 1
           /\ writes'[Len(writes')].call = "write_file_header"
           /\ writes'[Len(writes')].num_bytes = 8
           /\ Len(writes'[Len(writes')].bytes) = 8
           /\ SubSeq(writes'[Len(writes')].bytes, 1, 4) = file_magic'
           /\ SubSeq(writes'[Len(writes')].bytes, 5, 8) = <<0, 0, 0, 0>>
           /\ sink' = sink \o writes'[Len(writes')].bytes
           /\ (file_magic' = <<77, 77, 69, 83>>
                => sink' = <<77, 77, 69, 83, 0, 0, 0, 0>>)]_vars

C4_Witness ==
    /\ pc = "written"
    /\ file_magic = FILE_MAGIC_EVENT_STREAM
    /\ Len(writes) = 1
    /\ sink = <<77, 77, 69, 83, 0, 0, 0, 0>>

\* C6: the magic is compared byte for byte. For a buffer of at least 8 bytes
\* the read succeeds exactly if bytes 0..3 equal the expected magic at every
\* position, and fails with the magic error otherwise.
C6_ByteForByte ==
    (pc = "read" /\ Len(data) >= FILE_HEADER_SIZE)
        => /\ result.tag \in {"Ok", "Err"}
           /\ result.tag = "Ok" <=> \A i \in 1..4 : data[i] = expected_magic[i]

\* the header written with MMSI, byte 2 set to 0, read with MMSI
C6_Witness ==
    /\ pc = "read"
    /\ file_magic = FILE_MAGIC_STRINGTABLE_INDEX
    /\ expected_magic = FILE_MAGIC_STRINGTABLE_INDEX
    /\ data = <<77, 77, 0, 73, 0, 0, 0, 0>>
    /\ result.tag = "Err"

\* C7 as stated: strip_file_header applied to any buffer returns the sub-slice
\* that begins 8 bytes after the start of the buffer.
C7_AnyBuffer ==
    stripped # None
        => /\ stripped.tag = "Ok"
           /\ Len(stripped.value) = Len(data) - 8
           /\ \A i \in 1..Len(stripped.value) : stripped.value[i] = data[8 + i]

\* C7 amended: applied to a buffer of at least 8 bytes, strip_file_header
\* returns the sub-slice that begins 8 bytes after the start, whatever the
\* header bytes are; applied to a shorter buffer it panics.
C7_StripAtLeast8 ==
    stripped # None
        => IF Len(data) >= 8
           THEN /\ stripped.tag = "Ok"
                /\ Len(stripped.value) = Len(data) - 8
                /\ \A i \in 1..Len(stripped.value) : stripped.value[i] = data[8 + i]
           ELSE stripped = Panic

\* a buffer with a ruined magic and a payload byte, stripped
C7_Witness ==
    /\ stripped.tag = "Ok"
    /\ Len(data) = 9
    /\ SubSeq(data, 1, 4) = <<0, 0, 0, 0>>
    /\ stripped.value = <<data[9]>>

\* C8 as stated: for every buffer shorter than 8 bytes read_file_header panics.
C8_ShortAlwaysPanics ==
    (pc = "read" /\ Len(data) < 8) => result = Panic

\* C8 amended: for a buffer shorter than 8 bytes read_file_header never returns
\* Ok; it panics if the buffer is shorter than 4 bytes or its bytes 0..3 equal the
\* expected magic, and returns the magic error if the buffer has 4 to 7 bytes
\* and bytes 0..3 differ from the expected magic.
C8_ShortBuffer ==
    (pc = "read" /\ Len(data) < 8)
        => /\ result.tag \in {"Panic", "Err"}
           /\ result = Panic <=>
                (Len(data) < 4 \/ SubSeq(data, 1, 4) = expected_magic)

C8_Witness ==
    /\ pc = "read"
    /\ Len(data) = 6
    /\ SubSeq(data, 1, 4) = expected_magic
    /\ result = Panic

\* a 5 byte buffer whose magic is not the expected one
C8_WitnessErr ==
    /\ pc = "read"
    /\ Len(data) = 5
    /\ SubSeq(data, 1, 4) # expected_magic
    /\ result.tag = "Err"

\* trailing bytes a second buffer may carry after the same 8 header bytes
Trailers == {<<>>, <<0>>, <<255, 1>>, <<77, 77, 69, 83>>}

\* C9: read_file_header leaves its buffer as it was, and for a buffer of at
\* least 8 bytes its result is the result for any other buffer with the same
\* bytes 0..7 and the same expected magic.
C9_HeaderWindowOnly ==
    [][(pc = "bytes" /\ pc' = "read")
        => /\ data' = data
           /\ Len(data) >= FILE_HEADER_SIZE
                => \A t \in Trailers :
                    read_file_header(SubSeq(data, 1, 8) \o t, expected_magic') = result']_vars

C9_Witness ==
    /\ pc = "read"
    /\ Len(data) = 9
    /\ result.tag = "Err"
    /\ result = read_file_header(SubSeq(data, 1, 8), expected_magic)

----------------------------------------------------------------------------
(* Claims about the shared sink, checked under SinkSpec *)

\* the writers whose header has begun to land on the sink
Started == {w \in Writers : calls[w].start >= 0}

HeaderOf(w) == calls[w].magic \o LittleEndian_write_u32(CurrentVersion)

\* view shows the 8 byte range of w's header either not at all or whole
WholeOrAbsent(view, w) ==
    \/ Len(view) <= calls[w].start
    \/ /\ Len(view) >= calls[w].start + 8
       /\ SubSeq(view, calls[w].start + 1, calls[w].start + 8) = HeaderOf(w)
       /\ read_file_header(SubSeq(view, calls[w].start + 1, Len(view)), calls[w].magic)
            = Ok(CurrentVersion)

\* C5: atomicity. Under every interleaving of writers and readers, the 8 byte
\* range of a header is, on the sink and in every reader's bytes, either
\* entirely unwritten or the whole magic+version of one write_file_header
\* call, and the ranges of two calls do not overlap.
C5_HeaderAtomic ==
    /\ \A w \in Started : WholeOrAbsent(sink, w) /\ WholeOrAbsent(data, w)
    /\ \A v, w \in Started :
        v # w => \/ calls[v].start + 8 <= calls[w].start
                 \/ calls[w].start + 8 <= calls[v].start

\* both writers have written a header, and the reader's bytes hold just one
C5_Witness ==
    /\ Started = Writers
    /\ calls["w1"].magic # calls["w2"].magic
    /\ Len(sink) >= 16
    /\ Len(data) = 8

RECURSIVE Flatten(_)
Flatten(ws) ==
    IF ws = <<>> THEN <<>> ELSE Head(ws).bytes \o Flatten(Tail(ws))

\* everything written after the first write
Payload == Flatten(Tail(writes))

\* C10: header and payload. If write_file_header(sink, m) is the first write on
\* a fresh sink and P is what was written afterwards, the sink holds
\* 8 + length(P) bytes, reading them with m returns Ok(version 0) and stripping
\* the header leaves exactly P.
C10_HeaderThenPayload ==
    (writes # <<>> /\ writes[1].call = "write_file_header")
        => /\ Len(sink) = 8 + Len(Payload)
           /\ read_file_header(sink, calls[writes[1].by].magic) = Ok(CurrentVersion)
           /\ strip_file_header(sink) = Ok(Payload)

C10_Witness ==
    /\ Len(writes) = 3
    /\ writes[1].call = "write_file_header"
    /\ writes[2].call = "other"
    /\ writes[3].call = "other"
    /\ strip_file_header(sink) = Ok(<<77, 1>>)

====
